---- MODULE Spec2Model ----
(***************************************************************************)
(* Model of VisionCraft/vision/filter.py: boxFilter, weightedAvgFilter and *)
(* medianFilter.  One call of one filter is a small sequential program:    *)
(* resolve the image (argument or loader), print the even-size advice,     *)
(* unpack the shape, pad with 255, run the row/column loop one output      *)
(* pixel per step, optionally display, return.                             *)
(*                                                                         *)
(* Arrays are records [kind, shape, data]; data maps 0-based index tuples  *)
(* to pixel values.  Pixels are 8-bit unsigned (the grayscale images the   *)
(* loader produces), so a store into the output array truncates the        *)
(* floating-point aggregate and keeps it modulo 2^8.                       *)
(***************************************************************************)
EXTENDS Integers, Sequences, FiniteSets

VARIABLES fn, img, filter_size, pc, rows, cols, img1, filtered_img,
          row, col, printed, shown, raised, ret

vars == <<fn, img, filter_size, pc, rows, cols, img1, filtered_img,
          row, col, printed, shown, raised, ret>>

(* ------------------------------ bounds -------------------------------- *)

\* arbitrary grids have at most MaxCells pixels
MaxCells == 4
\* constant and single-spike grids have up to BigDim rows and columns
BigDim == 4
\* filter_size ranges over 1..MaxFS
MaxFS == 4

(* ------------------------- program constants -------------------------- *)

\* constant_values=255 of np.pad
PadValue == 255
\* pad_width=1 of weightedAvgFilter
WeightedPad == 1
\* the 3 of img1[row:row+3, col:col+3] in weightedAvgFilter
WeightedSize == 3
\* the divisor 16 of weightedAvgFilter
WeightedDiv == 16
\* number of values of an 8-bit pixel
PixelMod == 2 ^ 8

(* ------------------------------ arrays -------------------------------- *)

Index2(r, c) == (0 .. r - 1) \X (0 .. c - 1)

NoneVal == [kind |-> "None", shape |-> <<>>, data |-> <<>>]

Array2(r, c, f) == [kind |-> "ndarray", shape |-> <<r, c>>, data |-> f]

IsNone(a) == a.kind = "None"

Ndim(a) == Len(a.shape)

\* the weight matrix np.array([[1,2,1],[2,4,2],[1,2,1]])
filter ==
  Array2(3, 3, [p \in Index2(3, 3) |->
                  <<<<1, 2, 1>>, <<2, 4, 2>>, <<1, 2, 1>>>>[p[1] + 1][p[2] + 1]])

\* variant: the padding width rounded down, filter_size // 2
PadWidthFloor(fs) == fs \div 2

\* int(np.ceil(filter_size/2))
PadWidth(fs) == (fs + 1) \div 2

\* variant: padding on the leading side of each axis only, pad_width=(w, 0)
NpPadLeading(a, w, cval) ==
  LET r == a.shape[1]
      c == a.shape[2]
  IN  Array2(r + w, c + w,
             [p \in Index2(r + w, c + w) |->
                IF w <= p[1] /\ w <= p[2]
                THEN a.data[<<p[1] - w, p[2] - w>>]
                ELSE cval])

\* variant: constant_values left at its default, 0
NpPadZeros(a, w, cval) ==
  LET r == a.shape[1]
      c == a.shape[2]
  IN  Array2(r + 2 * w, c + 2 * w,
             [p \in Index2(r + 2 * w, c + 2 * w) |->
                IF /\ w <= p[1] /\ p[1] < w + r
                   /\ w <= p[2] /\ p[2] < w + c
                THEN a.data[<<p[1] - w, p[2] - w>>]
                ELSE 0])

\* np.pad(a, pad_width=w, mode='constant', constant_values=cval) of a 2-D array
NpPad(a, w, cval) ==
  LET r == a.shape[1]
      c == a.shape[2]
  IN  Array2(r + 2 * w, c + 2 * w,
             [p \in Index2(r + 2 * w, c + 2 * w) |->
                IF /\ w <= p[1] /\ p[1] < w + r
                   /\ w <= p[2] /\ p[2] < w + c
                THEN a.data[<<p[1] - w, p[2] - w>>]
                ELSE cval])

\* variant: the output allocated like the padded copy, one cell wider on
\* every side
ZerosLikePadded(a) ==
  [kind |-> "ndarray", shape |-> <<a.shape[1] + 2, a.shape[2] + 2>>,
   data |-> [p \in Index2(a.shape[1] + 2, a.shape[2] + 2) |-> 0]]

\* np.zeros_like(a)
ZerosLike(a) ==
  [kind |-> "ndarray", shape |-> a.shape, data |-> [p \in DOMAIN a.data |-> 0]]

Min(x, y) == IF x <= y THEN x ELSE y

\* a[r0:r1, c0:c1] with non-negative bounds: numpy clips a slice to the array
Slice(a, r0, r1, c0, c1) ==
  LET lr == Min(r0, a.shape[1])
      hr == Min(r1, a.shape[1])
      lc == Min(c0, a.shape[2])
      hc == Min(c1, a.shape[2])
      nr == IF hr > lr THEN hr - lr ELSE 0
      nc == IF hc > lc THEN hc - lc ELSE 0
  IN  Array2(nr, nc, [p \in Index2(nr, nc) |-> a.data[<<lr + p[1], lc + p[2]>>]])

Size(a) == a.shape[1] * a.shape[2]

\* the elements of a 2-D array in row-major order
Flatten(a) ==
  [k \in 1 .. Size(a) |->
     a.data[<<(k - 1) \div a.shape[2], (k - 1) % a.shape[2]>>]]

RECURSIVE SumSeq(_)
SumSeq(s) == IF s = <<>> THEN 0 ELSE Head(s) + SumSeq(Tail(s))

\* np.sum(a)
NpSum(a) == SumSeq(Flatten(a))

RECURSIVE Insert(_, _)
Insert(x, s) ==
  IF s = <<>> THEN <<x>>
  ELSE IF x <= Head(s) THEN <<x>> \o s
  ELSE <<Head(s)>> \o Insert(x, Tail(s))

RECURSIVE NpSort(_)
NpSort(s) == IF s = <<>> THEN <<>> ELSE Insert(Head(s), NpSort(Tail(s)))

\* a float result as an exact fraction num/den
Frac(n, d) == [num |-> n, den |-> d]

\* np.median(a) of a non-empty array: the middle element of the sorted
\* values, or the mean of the two middle elements when the count is even
NpMedian(a) ==
  LET s == NpSort(Flatten(a))
      n == Len(s)
  IN  IF n % 2 = 1 THEN Frac(s[(n + 1) \div 2], 1)
      ELSE Frac(s[n \div 2] + s[n \div 2 + 1], 2)

\* a * b for a 2-D array a and the 3x3 array b: numpy broadcasting
CanBroadcast(a) == a.shape[1] \in {1, 3} /\ a.shape[2] \in {1, 3}

Times(a, b) ==
  Array2(3, 3, [p \in Index2(3, 3) |->
                  a.data[<<IF a.shape[1] = 1 THEN 0 ELSE p[1],
                           IF a.shape[2] = 1 THEN 0 ELSE p[2]>>] * b.data[p]])

\* filtered_img[row,col] = replace: the float is truncated to the 8-bit
\* unsigned element type (aggregates are never negative)
Store(q) == (q.num \div q.den) % PixelMod

(* ------------------------------ inputs -------------------------------- *)

Filters == {"boxFilter", "weightedAvgFilter", "medianFilter"}

\* pixel values of the arbitrary grids
Vals == {0, 10, PadValue}

\* background and spike values of the single-spike grids
Backgrounds == {10}
Spikes == {0, 200}

GridsOf(r, c, V) == {Array2(r, c, f) : f \in [Index2(r, c) -> V]}

ConstGrid(r, c, v) == Array2(r, c, [p \in Index2(r, c) |-> v])

SpikeGrid(r, c, at, v, s) ==
  Array2(r, c, [p \in Index2(r, c) |-> IF p = at THEN s ELSE v])

GeneralGrids ==
  UNION {GridsOf(d[1], d[2], Vals) :
           d \in {e \in (1 .. MaxCells) \X (1 .. MaxCells) : e[1] * e[2] <= MaxCells}}

ConstGrids ==
  {ConstGrid(d[1], d[2], v) : d \in (1 .. BigDim) \X (1 .. BigDim), v \in Vals}

SpikeGrids ==
  UNION {{SpikeGrid(d[1], d[2], at, v, s) :
            at \in Index2(d[1], d[2]), v \in Backgrounds, s \in Spikes} :
           d \in (1 .. BigDim) \X (1 .. BigDim)}

\* the 5x5 grid of all zeros
ZeroGrid == ConstGrid(5, 5, 0)

\* non-empty 2-D grids
Grids == GeneralGrids \cup ConstGrids \cup SpikeGrids \cup {ZeroGrid}

\* 2-D arrays with no rows or no columns
EmptyGrids == {ConstGrid(0, 0, 0), ConstGrid(0, 2, 0), ConstGrid(2, 0, 0)}

\* arrays of 0, 1 and 3 dimensions
OtherArrays ==
  { [kind |-> "ndarray", shape |-> <<>>, data |-> [p \in {<<>>} |-> 10]],
    [kind |-> "ndarray", shape |-> <<2>>, data |-> [p \in {<<0>>, <<1>>} |-> 10]],
    [kind |-> "ndarray", shape |-> <<1, 1, 3>>,
     data |-> [p \in {<<0, 0, 0>>, <<0, 0, 1>>, <<0, 0, 2>>} |-> 10]] }

\* what a caller may pass as img
Images == Grids \cup EmptyGrids \cup OtherArrays

\* imRead(path): the image at the path as a single-channel grid, or None
\* when there is none
imRead == {NoneVal} \cup Grids

(* --------------------------- the filter call -------------------------- *)

Unset == [kind |-> "unset", shape |-> <<>>, data |-> <<>>]

Init ==
  /\ fn \in Filters
  /\ img \in {NoneVal} \cup Images
  /\ filter_size \in IF fn = "weightedAvgFilter" THEN {WeightedSize} ELSE 1 .. MaxFS
  /\ pc = "entry"
  /\ rows = 0
  /\ cols = 0
  /\ img1 = Unset
  /\ filtered_img = Unset
  /\ row = 0
  /\ col = 0
  /\ printed = FALSE
  /\ shown = FALSE
  /\ raised = "none"
  /\ ret = Unset

\* the statement after the image is resolved: the even-size test exists in
\* boxFilter and medianFilter only
AfterEntry == IF fn = "weightedAvgFilter" THEN "shape" ELSE "even"

\* variant: the early return on a missing image is absent
EntryReadFallsThrough ==
  /\ pc = "entry"
  /\ IsNone(img)
  /\ \E loaded \in imRead : img' = loaded
  /\ pc' = AfterEntry
  /\ UNCHANGED <<fn, filter_size, rows, cols, img1, filtered_img, row, col,
                 printed, shown, raised, ret>>

\* if img is None: img = imRead(path); if img is None: return img
EntryRead ==
  /\ pc = "entry"
  /\ IsNone(img)
  /\ \E loaded \in imRead :
       /\ img' = loaded
       /\ IF IsNone(loaded)
          THEN /\ ret' = loaded
               /\ pc' = "done"
          ELSE /\ ret' = ret
               /\ pc' = AfterEntry
  /\ UNCHANGED <<fn, filter_size, rows, cols, img1, filtered_img, row, col,
                 printed, shown, raised>>

\* img was passed: the loader is not consulted
EntryGiven ==
  /\ pc = "entry"
  /\ ~IsNone(img)
  /\ pc' = AfterEntry
  /\ UNCHANGED <<fn, img, filter_size, rows, cols, img1, filtered_img, row, col,
                 printed, shown, raised, ret>>

\* variant: an even filter_size is rejected instead of advised against
EvenCheckRaises ==
  /\ pc = "even"
  /\ IF filter_size % 2 = 0
     THEN /\ raised' = "ValueError"
          /\ pc' = "done"
     ELSE /\ raised' = raised
          /\ pc' = "shape"
  /\ UNCHANGED <<fn, img, filter_size, rows, cols, img1, filtered_img, row, col,
                 printed, shown, ret>>

\* if filter_size % 2 == 0: print(...)
EvenCheck ==
  /\ pc = "even"
  /\ printed' = (filter_size % 2 = 0)
  /\ pc' = "shape"
  /\ UNCHANGED <<fn, img, filter_size, rows, cols, img1, filtered_img, row, col,
                 shown, raised, ret>>

\* rows, cols = img.shape
UnpackShape ==
  /\ pc = "shape"
  /\ Ndim(img) = 2
  /\ rows' = img.shape[1]
  /\ cols' = img.shape[2]
  /\ pc' = "pad"
  /\ UNCHANGED <<fn, img, filter_size, img1, filtered_img, row, col,
                 printed, shown, raised, ret>>

\* variant: an array that is not 2-D is handed back instead of raising
UnpackFailsReturns ==
  /\ pc = "shape"
  /\ Ndim(img) # 2
  /\ ret' = img
  /\ pc' = "done"
  /\ UNCHANGED <<fn, img, filter_size, rows, cols, img1, filtered_img, row, col,
                 printed, shown, raised>>

\* rows, cols = img.shape with a shape that is not a pair: ValueError
UnpackFails ==
  /\ pc = "shape"
  /\ Ndim(img) # 2
  /\ raised' = "ValueError"
  /\ pc' = "done"
  /\ UNCHANGED <<fn, img, filter_size, rows, cols, img1, filtered_img, row, col,
                 printed, shown, ret>>

\* the pad_width argument of np.pad in each filter
PadOf(f, fs) == IF f = "weightedAvgFilter" THEN WeightedPad ELSE PadWidth(fs)

\* img1 = np.pad(...); filtered_img = np.zeros_like(img); the loops start
Pad ==
  /\ pc = "pad"
  /\ img1' = NpPad(img, PadOf(fn, filter_size), PadValue)
  /\ filtered_img' = ZerosLike(img)
  /\ row' = 0
  /\ col' = 0
  /\ pc' = "loop"
  /\ UNCHANGED <<fn, img, filter_size, rows, cols, printed, shown, raised, ret>>

\* the window img1[row:row+filter_size, col:col+filter_size]
Window(a, r, c, fs) == Slice(a, r, r + fs, c, c + fs)

\* np.floor(np.sum(window)/(filter_size*filter_size))
BoxReplace(w, fs) == Frac(NpSum(w) \div (fs * fs), 1)

\* variant: the weighted sum divided by the number of cells, 9
WeightedReplaceNine(w) == Frac(NpSum(Times(w, filter)), WeightedSize * WeightedSize)

\* np.sum(window * filter)/16
WeightedReplace(w) == Frac(NpSum(Times(w, filter)), WeightedDiv)

\* np.median(window)
MedianReplace(w) == NpMedian(w)

Replace(f, w, fs) ==
  IF f = "boxFilter" THEN BoxReplace(w, fs)
  ELSE IF f = "weightedAvgFilter" THEN WeightedReplace(w)
  ELSE MedianReplace(w)

\* the next (row, col) of the nested range loops
NextPos(r, c) == IF c + 1 < cols THEN <<r, c + 1>> ELSE <<r + 1, 0>>

\* one iteration of the inner loop: compute replace and store it; the
\* product window * filter raises ValueError when the shapes do not broadcast
LoopBody ==
  /\ pc = "loop"
  /\ row < rows
  /\ col < cols
  /\ LET w == Window(img1, row, col, filter_size)
     IN  IF fn = "weightedAvgFilter" /\ ~CanBroadcast(w)
         THEN /\ raised' = "ValueError"
              /\ pc' = "done"
              /\ UNCHANGED <<filtered_img, row, col>>
         ELSE /\ filtered_img' =
                   [filtered_img EXCEPT
                      !.data = [@ EXCEPT
                                  ![<<row, col>>] = Store(Replace(fn, w, filter_size))]]
              /\ row' = NextPos(row, col)[1]
              /\ col' = NextPos(row, col)[2]
              /\ UNCHANGED <<pc, raised>>
  /\ UNCHANGED <<fn, img, filter_size, rows, cols, img1, printed, shown, ret>>

\* a row of an image without columns: the inner loop has no iteration
LoopEmptyRow ==
  /\ pc = "loop"
  /\ row < rows
  /\ cols = 0
  /\ row' = row + 1
  /\ UNCHANGED <<fn, img, filter_size, pc, rows, cols, img1, filtered_img, col,
                 printed, shown, raised, ret>>

\* the outer range is exhausted
LoopExit ==
  /\ pc = "loop"
  /\ row >= rows
  /\ pc' = "show"
  /\ UNCHANGED <<fn, img, filter_size, rows, cols, img1, filtered_img, row, col,
                 printed, shown, raised, ret>>

\* if show: display both images; return filtered_img
ShowReturn ==
  /\ pc = "show"
  /\ \E show \in BOOLEAN : shown' = show
  /\ ret' = filtered_img
  /\ pc' = "done"
  /\ UNCHANGED <<fn, img, filter_size, rows, cols, img1, filtered_img, row, col,
                 printed, raised>>

Next ==
  \/ EntryRead
  \/ EntryGiven
  \/ EvenCheck
  \/ UnpackShape
  \/ UnpackFails
  \/ Pad
  \/ LoopBody
  \/ LoopEmptyRow
  \/ LoopExit
  \/ ShowReturn

Spec == Init /\ [][Next]_vars

(* ------------------------ properties of the calls --------------------- *)

\* a non-empty 2-D array
IsGrid(a) ==
  /\ a.kind = "ndarray"
  /\ Ndim(a) = 2
  /\ a.shape[1] >= 1
  /\ a.shape[2] >= 1

\* a 2-D array with no rows or no columns
IsEmpty2D(a) ==
  /\ a.kind = "ndarray"
  /\ Ndim(a) = 2
  /\ (a.shape[1] = 0 \/ a.shape[2] = 0)

\* ceil(n/2), by cases on the parity of n
CeilHalf(n) == IF n % 2 = 0 THEN n \div 2 ELSE n \div 2 + 1

\* cell (i, j) of grid g surrounded by pad cells of 255 on every side
PaddedCell(g, pad, i, j) ==
  IF /\ pad <= i /\ i - pad <= g.shape[1] - 1
     /\ pad <= j /\ j - pad <= g.shape[2] - 1
  THEN g.data[<<i - pad, j - pad>>]
  ELSE 255

\* sum of cells k, k+1, ... of the n x n window with top-left cell (r, c)
RECURSIVE WindowSumFrom(_, _, _, _, _, _)
WindowSumFrom(g, pad, r, c, n, k) ==
  IF k >= n * n THEN 0
  ELSE PaddedCell(g, pad, r + (k \div n), c + (k % n))
         + WindowSumFrom(g, pad, r, c, n, k + 1)

\* the loops ran to their end and every output cell holds the aggregate of
\* its window
FullyComputed ==
  /\ row = rows
  /\ col = 0
  /\ filtered_img.shape = <<rows, cols>>
  /\ \A p \in Index2(rows, cols) :
       filtered_img.data[p] =
         Store(Replace(fn, Window(img1, p[1], p[2], filter_size), filter_size))

\* C1: for every non-empty 2-D input grid and every filter_size >= 1, each
\* of the three filters ends without an error and returns a grid with
\* exactly the rows and columns of the input.
C1_ShapePreserved ==
  (pc = "done" /\ IsGrid(img)) =>
    /\ raised = "none"
    /\ ret.kind = "ndarray"
    /\ ret.shape = img.shape
    /\ DOMAIN ret.data = Index2(img.shape[1], img.shape[2])

C1_Witness ==
  /\ pc = "done"
  /\ fn = "medianFilter"
  /\ filter_size = 4
  /\ img.shape = <<1, 3>>
  /\ ret.kind = "ndarray"
  /\ ret.shape = <<1, 3>>

\* C2: boxFilter with filter_size = 1 is the identity: the output at every
\* (r, c) equals the input at (r, c).
C2_BoxSizeOneIdentity ==
  (pc = "done" /\ fn = "boxFilter" /\ filter_size = 1 /\ IsGrid(img)
     /\ ret.kind = "ndarray") =>
    \A p \in DOMAIN img.data : ret.data[p] = img.data[p]

\* every cell of g holds v, except cell at, which holds another value
IsSpikeOf(g, at, v) ==
  /\ g.data[at] # v
  /\ \A p \in DOMAIN g.data \ {at} : g.data[p] = v
  /\ DOMAIN g.data # {at}

\* C3: medianFilter with an odd filter_size >= 3 on a grid whose cells all
\* equal v except one cell outputs v at that cell, wherever the cell is.
C3_MedianRemovesSpike ==
  (pc = "done" /\ fn = "medianFilter" /\ filter_size >= 3
     /\ filter_size % 2 = 1 /\ IsGrid(img) /\ ret.kind = "ndarray") =>
    \A at \in DOMAIN img.data :
      \A v \in {img.data[p] : p \in DOMAIN img.data} :
        IsSpikeOf(img, at, v) => ret.data[at] = v

\* p is not in the first or last row or column of g
Interior(g, p) ==
  /\ 1 <= p[1] /\ p[1] <= g.shape[1] - 2
  /\ 1 <= p[2] /\ p[2] <= g.shape[2] - 2

\* C4: weightedAvgFilter on a grid whose cells all equal v returns exactly
\* v at every cell that is not in the first or last row or column.
C4_ConstantInterior ==
  (pc = "done" /\ fn = "weightedAvgFilter" /\ IsGrid(img)
     /\ ret.kind = "ndarray") =>
    \A v \in {img.data[p] : p \in DOMAIN img.data} :
      (\A p \in DOMAIN img.data : img.data[p] = v) =>
        \A p \in DOMAIN img.data : Interior(img, p) => ret.data[p] = v

C4_Witness ==
  /\ pc = "done"
  /\ fn = "weightedAvgFilter"
  /\ img = ConstGrid(3, 4, 10)
  /\ ret.kind = "ndarray"
  /\ ret.data[<<1, 1>>] = 10
  /\ ret.data[<<1, 2>>] = 10
  /\ ret.data[<<0, 0>>] # 10

\* C5: boxFilter's output at (r, c) is floor(S / filter_size^2), S the sum
\* of the filter_size x filter_size window with top-left cell (r, c) in the
\* input padded on all sides with ceil(filter_size/2) cells of 255.
C5_BoxIsFlooredWindowMean ==
  (pc = "done" /\ fn = "boxFilter" /\ IsGrid(img) /\ ret.kind = "ndarray") =>
    \A p \in DOMAIN img.data :
      ret.data[p] =
        WindowSumFrom(img, CeilHalf(filter_size), p[1], p[2], filter_size, 0)
          \div (filter_size * filter_size)

\* the 5x5 all-zero grid with filter_size = 3: the window of (0,0) holds
\* eight padding cells, floor(8 * 255 / 9) = 226
C5_Witness ==
  /\ pc = "done"
  /\ fn = "boxFilter"
  /\ filter_size = 3
  /\ img = ZeroGrid
  /\ ret.kind = "ndarray"
  /\ ret.data[<<0, 0>>] = 226
  /\ ret.data[<<4, 4>>] = 0

C7_EmptyOrNot2DFails ==
  (pc = "done" /\ img.kind = "ndarray" /\ (Ndim(img) # 2 \/ IsEmpty2D(img))) =>
    (raised # "none" /\ ret = Unset)

\* C7, amended: each filter fails with ValueError and returns no grid
\* whenever the supplied image has a number of dimensions other than two;
\* a 2-D image with zero rows or zero columns raises nothing and an empty
\* grid of the same shape is returned.
C7_Not2DFailsEmptyReturns ==
  /\ (pc = "done" /\ img.kind = "ndarray" /\ Ndim(img) # 2) =>
       (raised = "ValueError" /\ ret = Unset /\ filtered_img = Unset)
  /\ (pc = "done" /\ IsEmpty2D(img)) =>
       /\ raised = "none"
       /\ ret.kind = "ndarray"
       /\ ret.shape = img.shape
       /\ DOMAIN ret.data = {}

C7_Witness ==
  /\ pc = "done"
  /\ fn = "weightedAvgFilter"
  /\ img.shape = <<1, 1, 3>>
  /\ raised = "ValueError"
  /\ ret = Unset

\* C8: for boxFilter and medianFilter on a 2-D grid the warning is printed
\* exactly when filter_size is even, and an even filter_size raises nothing:
\* the padding and the windows use the size as given and a fully computed
\* grid of the input's shape is returned.
C8_EvenSizeOnlyWarns ==
  /\ (fn # "weightedAvgFilter" /\ img.kind = "ndarray" /\ Ndim(img) = 2
        /\ pc \notin {"entry", "even"}) =>
       (printed <=> filter_size % 2 = 0)
  /\ (fn # "weightedAvgFilter" /\ img.kind = "ndarray" /\ Ndim(img) = 2
        /\ pc = "done" /\ filter_size % 2 = 0) =>
       /\ raised = "none"
       /\ ret.kind = "ndarray"
       /\ ret.shape = img.shape
       /\ ret = filtered_img
       /\ img1.shape = <<rows + filter_size, cols + filter_size>>
       /\ FullyComputed

C8_Witness ==
  /\ pc = "done"
  /\ fn = "boxFilter"
  /\ filter_size = 2
  /\ printed
  /\ raised = "none"
  /\ img = ConstGrid(2, 2, 0)
  /\ ret.kind = "ndarray"
  /\ ret.shape = <<2, 2>>
  /\ ret.data[<<1, 1>>] = 0

\* C9: the padded grid is wider than the input by ceil(filter_size/2) cells
\* on every side (1 for the 3x3 weighted filter), and for every output
\* coordinate (r, c) the window from (r, c) through (r + filter_size - 1,
\* c + filter_size - 1) lies inside it: the slice is never clipped and holds
\* exactly filter_size^2 cells.
C9_WindowsFullSized ==
  img1.kind = "ndarray" =>
    LET pad == IF fn = "weightedAvgFilter" THEN 1 ELSE CeilHalf(filter_size)
    IN  /\ img1.shape = <<rows + 2 * pad, cols + 2 * pad>>
        /\ \A p \in Index2(rows, cols) :
             LET w == Window(img1, p[1], p[2], filter_size)
             IN  /\ p[1] + filter_size - 1 <= img1.shape[1] - 1
                 /\ p[2] + filter_size - 1 <= img1.shape[2] - 1
                 /\ w.shape = <<filter_size, filter_size>>
                 /\ Cardinality(DOMAIN w.data) = filter_size * filter_size

C9_Witness ==
  /\ pc = "loop"
  /\ fn = "medianFilter"
  /\ filter_size = 4
  /\ rows = 2
  /\ cols = 2
  /\ row = 1
  /\ col = 1
  /\ Window(img1, row, col, filter_size).shape = <<4, 4>>

\* C10: for every non-empty 2-D grid with values in 0..255 and every
\* filter_size >= 1, medianFilter's output at (0,0) is 255 whatever the
\* image holds.
C10_MedianCornerIsPadding ==
  (pc = "done" /\ fn = "medianFilter" /\ IsGrid(img) /\ ret.kind = "ndarray") =>
    ret.data[<<0, 0>>] = 255

C10_Witness ==
  /\ pc = "done"
  /\ fn = "medianFilter"
  /\ filter_size = 3
  /\ img = ConstGrid(4, 4, 0)
  /\ ret.kind = "ndarray"
  /\ ret.data[<<0, 0>>] = 255

====
